---- MODULE Spec2Model ----
(***************************************************************************)
(* The fake routing registry of router/routertest (fakeRouter) together    *)
(* with the name-resolution record of package router that it calls         *)
(* (Store / Retrieve / Remove / Swap / ValidCName).                        *)
(*                                                                         *)
(* Every handler of fakeRouter is one action.  The variable `last' holds   *)
(* the most recent call: its name, its arguments and the error it          *)
(* returned, so that properties can speak of "the call returned X".        *)
(* In Spec, SpecNames and SpecFault the calls are sequential: each runs to  *)
(* its return before the next.  SpecConc runs them concurrently, one lock   *)
(* hold per step.  SpecTeams, SpecEnv, SpecApp and SpecHooks are the       *)
(* application aggregate of package app: team list, environment, creation  *)
(* and destruction, restart and its hooks.                                 *)
(***************************************************************************)
EXTENDS Integers, Sequences, FiniteSets, TLC

(***************************************************************************)
(* Bounds of the model.                                                    *)
(***************************************************************************)
\* longest address batch handed to AddRoutes / RemoveRoutes
MaxBatch == 2
Names == {"app1", "app2"}

Addrs == {"http://10.0.0.1", "http://10.0.0.2"}

\* an alias is <<host label, domain>>; the string is label.domain
CNames == {<<"www", "example.com">>, <<"www", "fakerouter.com">>}

\* non-zero health payloads; NoData is the zero value of router.HealthcheckData
Payloads == {"hc1", "hc2"}

NoData == "none"

Nil == "nil"

ErrForcedFailure == "Forced failure"

ErrBackendExists == "ErrBackendExists"

ErrBackendNotFound == "ErrBackendNotFound"

ErrBackendSwapped == "ErrBackendSwapped"

ErrRouteExists == "ErrRouteExists"

ErrRouteNotFound == "ErrRouteNotFound"

ErrCNameExists == "ErrCNameExists"

ErrCNameNotFound == "ErrCNameNotFound"

ErrCNameNotAllowed == "ErrCNameNotAllowed"

\* an error of the storage behind the name-resolution record
ErrStorage == "ErrStorage"

VARIABLES
    backends,      \* fakeRouter.backends: name -> list of routes
    cnames,        \* fakeRouter.cnames: alias -> backend name
    failuresByIp,  \* fakeRouter.failuresByIp: the addresses flagged true
    healthcheck,   \* fakeRouter.healthcheck: backend name -> payload
    records,       \* the name-resolution record: app name -> backend name
    dbUp,          \* whether the storage behind the record answers
    last,          \* the last call made and what it returned
    procs,         \* concurrent callers of fakeRouter: where each one is in its call
    started,       \* the number of concurrent calls started so far
    teams,         \* App.Teams
    prevTeams,     \* App.Teams before the last Grant or Revoke
    members,       \* the teams granted and not revoked since the start
    env,           \* App.Env: variable name -> value and visibility
    app,           \* what exists for the application: record, storage, units ...
    events,        \* what the last CreateApp, Destroy or restart call did, in order
    hooks,         \* App.hooks: the restart hooks, once loaded
    fetches        \* how often app.conf has been read from the unit

\* the variables the sequential fakeRouter calls leave alone
others == <<procs, started, teams, prevTeams, members, env, app, events, hooks, fetches>>

router == <<backends, cnames, failuresByIp, healthcheck, records, dbUp>>

vars == <<router, last, others>>

registry == <<backends, cnames, healthcheck>>

(***************************************************************************)
(* Helpers on lists and maps.                                              *)
(***************************************************************************)
Range(s) == {s[i] : i \in 1..Len(s)}

\* all sequences over S of length 0..n
RECURSIVE SeqsUpTo(_, _)
SeqsUpTo(S, n) ==
    IF n = 0 THEN {<<>>}
    ELSE LET shorter == SeqsUpTo(S, n - 1)
         IN shorter \cup {Append(s, x) : s \in {t \in shorter : Len(t) = n - 1}, x \in S}

Batches == SeqsUpTo(Addrs, MaxBatch)

\* a Go map with key k set to v
MapSet(m, k, v) == (k :> v) @@ m

\* a Go map after delete(m, k)
MapDelete(m, k) == [x \in (DOMAIN m) \ {k} |-> m[x]]

EmptyMap == <<>>

NoDup(s) == \A i, j \in 1..Len(s) : s[i] = s[j] => i = j

\* the first index of a in routes, 0 when absent (the code's -1)
IndexOf(routes, a) ==
    IF a \in Range(routes)
    THEN CHOOSE i \in 1..Len(routes) :
            routes[i] = a /\ \A j \in 1..(i - 1) : routes[j] # a
    ELSE 0

\* append(routes[:i], routes[i+1:]...)
RemoveAt(routes, i) == SubSeq(routes, 1, i - 1) \o SubSeq(routes, i + 1, Len(routes))

\* the record of a call; calls alternates with every call, so that a call
\* repeating the previous one with the same outcome is still a step
Call(op, name, addrs, cname, data, err) ==
    [op |-> op, name |-> name, addrs |-> addrs, cname |-> cname, data |-> data,
     err |-> err, calls |-> IF last.calls = "even" THEN "odd" ELSE "even"]

NoCName == <<"", "">>

\* a.hooks == nil: no restart hooks loaded yet
NoHooks == [loaded |-> FALSE, first |-> Nil, pre |-> <<>>, pos |-> <<>>]

(***************************************************************************)
(* Package router: the name-resolution record and the alias check.         *)
(***************************************************************************)
\* router.Retrieve(appName) -> (backendName, error)
Retrieve(appName) ==
    IF ~dbUp THEN [name |-> "", err |-> ErrStorage]
    ELSE IF appName \in DOMAIN records
         THEN [name |-> records[appName], err |-> Nil]
         ELSE [name |-> "", err |-> ErrBackendNotFound]

\* router.Store(appName, routerName, kind) -> error
Store(appName, routerName) ==
    IF ~dbUp THEN [records |-> records, err |-> ErrStorage]
    ELSE [records |-> MapSet(records, appName, routerName), err |-> Nil]

\* router.Remove(appName) -> error
Remove(appName) ==
    IF ~dbUp THEN [records |-> records, err |-> ErrStorage]
    ELSE IF appName \in DOMAIN records
         THEN [records |-> MapDelete(records, appName), err |-> Nil]
         ELSE [records |-> records, err |-> ErrBackendNotFound]

\* router.ValidCName(cname, domain): the alias must not end in the router's domain
ValidCName(cname, domain) == cname[2] # domain

(***************************************************************************)
(* fakeRouter: readers.                                                    *)
(***************************************************************************)
GetHealthcheck(name) ==
    IF name \in DOMAIN healthcheck THEN healthcheck[name] ELSE NoData

HasBackend(name) == name \in DOMAIN backends

HasCName(name) == name \in DOMAIN cnames

HasRoute(name, address) ==
    IF name \in DOMAIN backends
    THEN address \in Range(backends[name])
    ELSE IF name \in DOMAIN cnames /\ cnames[name] \in DOMAIN backends
         THEN address \in Range(backends[cnames[name]])
         ELSE FALSE

(***************************************************************************)
(* fakeRouter: the loops of the batch operations.                          *)
(***************************************************************************)
\* any address of the batch is flagged in failuresByIp
BatchFails(addresses) == \E i \in 1..Len(addresses) : addresses[i] \in failuresByIp

\* AppendNew without the search of routes: every address is appended
RECURSIVE AppendAll(_, _)
AppendAll(routes, addresses) ==
    IF addresses = <<>> THEN routes
    ELSE AppendAll(Append(routes, Head(addresses)), Tail(addresses))

\* the labelled loop of AddRoutes: append each address not yet in routes
RECURSIVE AppendNew(_, _)
AppendNew(routes, addresses) ==
    IF addresses = <<>> THEN routes
    ELSE AppendNew(IF Head(addresses) \in Range(routes)
                   THEN routes
                   ELSE Append(routes, Head(addresses)),
                   Tail(addresses))

\* the loop of RemoveRoutes: drop the first occurrence of each address
RECURSIVE DropEach(_, _)
DropEach(routes, addresses) ==
    IF addresses = <<>> THEN routes
    ELSE DropEach(IF IndexOf(routes, Head(addresses)) = 0
                  THEN routes
                  ELSE RemoveAt(routes, IndexOf(routes, Head(addresses))),
                  Tail(addresses))

\* SwapRemove without the move of the last route into the freed slot
TruncateOnly(routes, index) == SubSeq(routes, 1, Len(routes) - 1)

\* RemoveRoute: routes[index] = routes[len-1]; routes[:len-1]
SwapRemove(routes, index) ==
    LET n == Len(routes)
        moved == [routes EXCEPT ![index] = routes[n]]
    IN SubSeq(moved, 1, n - 1)

(***************************************************************************)
(* fakeRouter: the operations.                                             *)
(***************************************************************************)
FailForIp(ip) ==
    /\ failuresByIp' = failuresByIp \cup {ip}
    /\ last' = Call("FailForIp", "", <<ip>>, NoCName, NoData, Nil)
    /\ UNCHANGED <<backends, cnames, healthcheck, records, dbUp, others>>

RemoveFailForIp(ip) ==
    /\ failuresByIp' = failuresByIp \ {ip}
    /\ last' = Call("RemoveFailForIp", "", <<ip>>, NoCName, NoData, Nil)
    /\ UNCHANGED <<backends, cnames, healthcheck, records, dbUp, others>>

\* AddBackend without the HasBackend test
AddBackendNoCheck(name) ==
    LET st == Store(name, name)
    IN /\ backends' = MapSet(backends, name, <<>>)
       /\ records' = st.records
       /\ last' = Call("AddBackend", name, <<>>, NoCName, NoData, st.err)
       /\ UNCHANGED <<cnames, failuresByIp, healthcheck, dbUp, others>>

AddBackend(name) ==
    IF HasBackend(name)
    THEN /\ last' = Call("AddBackend", name, <<>>, NoCName, NoData, ErrBackendExists)
         /\ UNCHANGED <<backends, cnames, failuresByIp, healthcheck, records, dbUp, others>>
    ELSE LET st == Store(name, name)
         IN /\ backends' = MapSet(backends, name, <<>>)
            /\ records' = st.records
            /\ last' = Call("AddBackend", name, <<>>, NoCName, NoData, st.err)
            /\ UNCHANGED <<cnames, failuresByIp, healthcheck, dbUp, others>>

\* RemoveBackend without the comparison of the resolved name with the given one
RemoveBackendNoSwapCheck(name) ==
    LET got == Retrieve(name)
        backendName == got.name
        rm == Remove(backendName)
        ret(err) == Call("RemoveBackend", name, <<>>, NoCName, NoData, err)
    IN IF got.err # Nil
       THEN /\ last' = ret(got.err)
            /\ UNCHANGED <<backends, cnames, failuresByIp, healthcheck, records, dbUp, others>>
       ELSE IF ~HasBackend(backendName)
       THEN /\ last' = ret(ErrBackendNotFound)
            /\ UNCHANGED <<backends, cnames, failuresByIp, healthcheck, records, dbUp, others>>
       ELSE /\ cnames' = [c \in {x \in DOMAIN cnames : cnames[x] # backendName} |-> cnames[c]]
            /\ backends' = MapDelete(backends, backendName)
            /\ records' = rm.records
            /\ last' = ret(rm.err)
            /\ UNCHANGED <<failuresByIp, healthcheck, dbUp, others>>

RemoveBackend(name) ==
    LET got == Retrieve(name)
        backendName == got.name
        rm == Remove(backendName)
        ret(err) == Call("RemoveBackend", name, <<>>, NoCName, NoData, err)
    IN IF got.err # Nil
       THEN /\ last' = ret(got.err)
            /\ UNCHANGED <<backends, cnames, failuresByIp, healthcheck, records, dbUp, others>>
       ELSE IF backendName # name
       THEN /\ last' = ret(ErrBackendSwapped)
            /\ UNCHANGED <<backends, cnames, failuresByIp, healthcheck, records, dbUp, others>>
       ELSE IF ~HasBackend(backendName)
       THEN /\ last' = ret(ErrBackendNotFound)
            /\ UNCHANGED <<backends, cnames, failuresByIp, healthcheck, records, dbUp, others>>
       ELSE /\ cnames' = [c \in {x \in DOMAIN cnames : cnames[x] # backendName} |-> cnames[c]]
            /\ backends' = MapDelete(backends, backendName)
            /\ records' = rm.records
            /\ last' = ret(rm.err)
            /\ UNCHANGED <<failuresByIp, healthcheck, dbUp, others>>

\* AddRoutes with the failure test inside the appending loop: the addresses
\* before the first flagged one are added before the error is returned
AddRoutesPartial(name, addresses) ==
    LET got == Retrieve(name)
        backendName == got.name
        ret(err) == Call("AddRoutes", name, addresses, NoCName, NoData, err)
        firstBad == CHOOSE i \in 1..Len(addresses) :
                        /\ addresses[i] \in failuresByIp
                        /\ \A j \in 1..(i - 1) : addresses[j] \notin failuresByIp
    IN IF got.err # Nil
       THEN /\ last' = ret(got.err)
            /\ UNCHANGED <<backends, cnames, failuresByIp, healthcheck, records, dbUp, others>>
       ELSE IF ~HasBackend(backendName)
       THEN /\ last' = ret(ErrBackendNotFound)
            /\ UNCHANGED <<backends, cnames, failuresByIp, healthcheck, records, dbUp, others>>
       ELSE IF BatchFails(addresses)
       THEN /\ backends' = MapSet(backends, backendName,
                                  AppendNew(backends[backendName],
                                            SubSeq(addresses, 1, firstBad - 1)))
            /\ last' = ret(ErrForcedFailure)
            /\ UNCHANGED <<cnames, failuresByIp, healthcheck, records, dbUp, others>>
       ELSE /\ backends' = MapSet(backends, backendName,
                                  AppendNew(backends[backendName], addresses))
            /\ last' = ret(Nil)
            /\ UNCHANGED <<cnames, failuresByIp, healthcheck, records, dbUp, others>>

AddRoutes(name, addresses) ==
    LET got == Retrieve(name)
        backendName == got.name
        ret(err) == Call("AddRoutes", name, addresses, NoCName, NoData, err)
    IN IF got.err # Nil
       THEN /\ last' = ret(got.err)
            /\ UNCHANGED <<backends, cnames, failuresByIp, healthcheck, records, dbUp, others>>
       ELSE IF ~HasBackend(backendName)
       THEN /\ last' = ret(ErrBackendNotFound)
            /\ UNCHANGED <<backends, cnames, failuresByIp, healthcheck, records, dbUp, others>>
       ELSE IF BatchFails(addresses)
       THEN /\ last' = ret(ErrForcedFailure)
            /\ UNCHANGED <<backends, cnames, failuresByIp, healthcheck, records, dbUp, others>>
       ELSE /\ backends' = MapSet(backends, backendName,
                                  AppendNew(backends[backendName], addresses))
            /\ last' = ret(Nil)
            /\ UNCHANGED <<cnames, failuresByIp, healthcheck, records, dbUp, others>>

RemoveRoutes(name, addresses) ==
    LET got == Retrieve(name)
        backendName == got.name
        ret(err) == Call("RemoveRoutes", name, addresses, NoCName, NoData, err)
    IN IF got.err # Nil
       THEN /\ last' = ret(got.err)
            /\ UNCHANGED <<backends, cnames, failuresByIp, healthcheck, records, dbUp, others>>
       ELSE IF ~HasBackend(backendName)
       THEN /\ last' = ret(ErrBackendNotFound)
            /\ UNCHANGED <<backends, cnames, failuresByIp, healthcheck, records, dbUp, others>>
       ELSE IF BatchFails(addresses)
       THEN /\ last' = ret(ErrForcedFailure)
            /\ UNCHANGED <<backends, cnames, failuresByIp, healthcheck, records, dbUp, others>>
       ELSE /\ backends' = MapSet(backends, backendName,
                                  DropEach(backends[backendName], addresses))
            /\ last' = ret(Nil)
            /\ UNCHANGED <<cnames, failuresByIp, healthcheck, records, dbUp, others>>

AddRoute(name, address) ==
    LET got == Retrieve(name)
        backendName == got.name
        ret(err) == Call("AddRoute", name, <<address>>, NoCName, NoData, err)
    IN IF got.err # Nil
       THEN /\ last' = ret(got.err)
            /\ UNCHANGED <<backends, cnames, failuresByIp, healthcheck, records, dbUp, others>>
       ELSE IF ~HasBackend(backendName)
       THEN /\ last' = ret(ErrBackendNotFound)
            /\ UNCHANGED <<backends, cnames, failuresByIp, healthcheck, records, dbUp, others>>
       ELSE IF HasRoute(backendName, address)
       THEN /\ last' = ret(ErrRouteExists)
            /\ UNCHANGED <<backends, cnames, failuresByIp, healthcheck, records, dbUp, others>>
       ELSE IF address \in failuresByIp
       THEN /\ last' = ret(ErrForcedFailure)
            /\ UNCHANGED <<backends, cnames, failuresByIp, healthcheck, records, dbUp, others>>
       ELSE /\ backends' = MapSet(backends, backendName,
                                  Append(backends[backendName], address))
            /\ last' = ret(Nil)
            /\ UNCHANGED <<cnames, failuresByIp, healthcheck, records, dbUp, others>>

RemoveRoute(name, address) ==
    LET got == Retrieve(name)
        backendName == got.name
        ret(err) == Call("RemoveRoute", name, <<address>>, NoCName, NoData, err)
    IN IF got.err # Nil
       THEN /\ last' = ret(got.err)
            /\ UNCHANGED <<backends, cnames, failuresByIp, healthcheck, records, dbUp, others>>
       ELSE IF ~HasBackend(backendName)
       THEN /\ last' = ret(ErrBackendNotFound)
            /\ UNCHANGED <<backends, cnames, failuresByIp, healthcheck, records, dbUp, others>>
       ELSE IF address \in failuresByIp
       THEN /\ last' = ret(ErrForcedFailure)
            /\ UNCHANGED <<backends, cnames, failuresByIp, healthcheck, records, dbUp, others>>
       ELSE IF IndexOf(backends[backendName], address) = 0
       THEN /\ last' = ret(ErrRouteNotFound)
            /\ UNCHANGED <<backends, cnames, failuresByIp, healthcheck, records, dbUp, others>>
       ELSE /\ backends' = MapSet(backends, backendName,
                                  SwapRemove(backends[backendName],
                                             IndexOf(backends[backendName], address)))
            /\ last' = ret(Nil)
            /\ UNCHANGED <<cnames, failuresByIp, healthcheck, records, dbUp, others>>

\* SetCName without the test for an alias already in the table
SetCNameOverwrite(cname, name) ==
    LET got == Retrieve(name)
        backendName == got.name
        ret(err) == Call("SetCName", name, <<>>, cname, NoData, err)
    IN IF got.err # Nil
       THEN /\ last' = ret(got.err)
            /\ UNCHANGED <<backends, cnames, failuresByIp, healthcheck, records, dbUp, others>>
       ELSE IF ~HasBackend(backendName)
       THEN /\ last' = ret(Nil)
            /\ UNCHANGED <<backends, cnames, failuresByIp, healthcheck, records, dbUp, others>>
       ELSE IF ~ValidCName(cname, "fakerouter.com")
       THEN /\ last' = ret(ErrCNameNotAllowed)
            /\ UNCHANGED <<backends, cnames, failuresByIp, healthcheck, records, dbUp, others>>
       ELSE /\ cnames' = MapSet(cnames, cname, backendName)
            /\ last' = ret(Nil)
            /\ UNCHANGED <<backends, failuresByIp, healthcheck, records, dbUp, others>>

SetCName(cname, name) ==
    LET got == Retrieve(name)
        backendName == got.name
        ret(err) == Call("SetCName", name, <<>>, cname, NoData, err)
    IN IF got.err # Nil
       THEN /\ last' = ret(got.err)
            /\ UNCHANGED <<backends, cnames, failuresByIp, healthcheck, records, dbUp, others>>
       ELSE IF ~HasBackend(backendName)
       THEN /\ last' = ret(Nil)
            /\ UNCHANGED <<backends, cnames, failuresByIp, healthcheck, records, dbUp, others>>
       ELSE IF ~ValidCName(cname, "fakerouter.com")
       THEN /\ last' = ret(ErrCNameNotAllowed)
            /\ UNCHANGED <<backends, cnames, failuresByIp, healthcheck, records, dbUp, others>>
       ELSE IF cname \in DOMAIN cnames
       THEN /\ last' = ret(ErrCNameExists)
            /\ UNCHANGED <<backends, cnames, failuresByIp, healthcheck, records, dbUp, others>>
       ELSE /\ cnames' = MapSet(cnames, cname, backendName)
            /\ last' = ret(Nil)
            /\ UNCHANGED <<backends, failuresByIp, healthcheck, records, dbUp, others>>

UnsetCName(cname, name) ==
    LET got == Retrieve(name)
        backendName == got.name
        ret(err) == Call("UnsetCName", name, <<>>, cname, NoData, err)
    IN IF got.err # Nil
       THEN /\ last' = ret(got.err)
            /\ UNCHANGED <<backends, cnames, failuresByIp, healthcheck, records, dbUp, others>>
       ELSE IF ~HasBackend(backendName)
       THEN /\ last' = ret(Nil)
            /\ UNCHANGED <<backends, cnames, failuresByIp, healthcheck, records, dbUp, others>>
       ELSE IF cname \notin DOMAIN cnames
       THEN /\ last' = ret(ErrCNameNotFound)
            /\ UNCHANGED <<backends, cnames, failuresByIp, healthcheck, records, dbUp, others>>
       ELSE /\ cnames' = MapDelete(cnames, cname)
            /\ last' = ret(Nil)
            /\ UNCHANGED <<backends, failuresByIp, healthcheck, records, dbUp, others>>

Reset ==
    /\ backends' = EmptyMap
    /\ failuresByIp' = {}
    /\ cnames' = EmptyMap
    /\ healthcheck' = EmptyMap
    /\ last' = Call("Reset", "", <<>>, NoCName, NoData, Nil)
    /\ UNCHANGED <<records, dbUp, others>>

\* router.Swap(r, backend1, backend2): exchange what the two names resolve to
Swap(backend1, backend2) ==
    LET got1 == Retrieve(backend1)
        got2 == Retrieve(backend2)
        ret(err) == Call("Swap", backend1, <<>>, NoCName, backend2, err)
    IN IF got1.err # Nil
       THEN /\ last' = ret(got1.err)
            /\ UNCHANGED <<backends, cnames, failuresByIp, healthcheck, records, dbUp, others>>
       ELSE IF got2.err # Nil
       THEN /\ last' = ret(got2.err)
            /\ UNCHANGED <<backends, cnames, failuresByIp, healthcheck, records, dbUp, others>>
       ELSE /\ records' = MapSet(MapSet(records, backend1, got2.name), backend2, got1.name)
            /\ last' = ret(Nil)
            /\ UNCHANGED <<backends, cnames, failuresByIp, healthcheck, dbUp, others>>

SetHealthcheck(name, data) ==
    LET got == Retrieve(name)
        backendName == got.name
        ret(err) == Call("SetHealthcheck", name, <<>>, NoCName, data, err)
    IN IF got.err # Nil
       THEN /\ last' = ret(got.err)
            /\ UNCHANGED <<backends, cnames, failuresByIp, healthcheck, records, dbUp, others>>
       ELSE /\ healthcheck' = MapSet(healthcheck, backendName, data)
            /\ last' = ret(Nil)
            /\ UNCHANGED <<backends, cnames, failuresByIp, records, dbUp, others>>

(***************************************************************************)
(* The storage behind the name-resolution record going away and coming     *)
(* back (only in SpecFault).                                               *)
(***************************************************************************)
StorageDown ==
    /\ dbUp
    /\ dbUp' = FALSE
    /\ UNCHANGED <<backends, cnames, failuresByIp, healthcheck, records, last, others>>

StorageUp ==
    /\ ~dbUp
    /\ dbUp' = TRUE
    /\ UNCHANGED <<backends, cnames, failuresByIp, healthcheck, records, last, others>>

Init ==
    /\ backends = EmptyMap
    /\ cnames = EmptyMap
    /\ failuresByIp = {}
    /\ healthcheck = EmptyMap
    /\ records = EmptyMap
    /\ dbUp = TRUE
    /\ last = [op |-> "new", name |-> "", addrs |-> <<>>, cname |-> NoCName,
               data |-> NoData, err |-> Nil, calls |-> "even"]
    /\ procs = <<>>
    /\ started = 0
    /\ teams = <<>>
    /\ prevTeams = <<>>
    /\ members = {}
    /\ env = <<>>
    /\ app = <<>>
    /\ events = <<>>
    /\ hooks = NoHooks
    /\ fetches = 0

(***************************************************************************)
(* The calls, grouped by the part of the registry they work on.            *)
(***************************************************************************)
NextBackend ==
    \/ \E name \in Names : AddBackend(name)
    \/ \E name \in Names : RemoveBackend(name)
    \/ \E backend1, backend2 \in Names : Swap(backend1, backend2)
    \/ Reset

NextRoutes ==
    \/ \E ip \in Addrs : FailForIp(ip)
    \/ \E ip \in Addrs : RemoveFailForIp(ip)
    \/ \E name \in Names, addresses \in Batches : AddRoutes(name, addresses)
    \/ \E name \in Names, addresses \in Batches : RemoveRoutes(name, addresses)
    \/ \E name \in Names, address \in Addrs : AddRoute(name, address)
    \/ \E name \in Names, address \in Addrs : RemoveRoute(name, address)

NextAlias ==
    \/ \E cname \in CNames, name \in Names : SetCName(cname, name)
    \/ \E cname \in CNames, name \in Names : UnsetCName(cname, name)

NextHealth ==
    \E name \in Names, data \in Payloads : SetHealthcheck(name, data)

NextStorage == StorageDown \/ StorageUp

\* backends and their routes
Next == NextBackend \/ NextRoutes

Spec == Init /\ [][Next]_vars

NextOneRoute ==
    \E name \in Names, address \in Addrs : AddRoute(name, address)

\* backends, their aliases and their health records
NextNames == NextBackend \/ NextOneRoute \/ NextAlias \/ NextHealth

SpecNames == Init /\ [][NextNames]_vars

\* the same, with a storage that may fail
NextFault == NextBackend \/ NextAlias \/ NextHealth \/ NextStorage

SpecFault == Init /\ [][NextFault]_vars

(***************************************************************************)
(* fakeRouter called concurrently.  A call is a sequence of steps: each    *)
(* hold of r.mutex is one step, and so is each read of the name-resolution *)
(* record outside the lock.  HasBackend and HasRoute take and release the  *)
(* lock themselves, so a handler that calls them before its own Lock()     *)
(* holds the lock several times.  `last' is set when a call returns.       *)
(***************************************************************************)
\* the calls started in a concurrent run
MaxCalls == 3

Procs == {"p1", "p2"}

\* the batches of concurrent AddRoutes and RemoveRoutes calls: no address or one
ShortBatches == {<<>>} \cup {<<a>> : a \in Addrs}

Idle == [op |-> "", name |-> "", addrs |-> <<>>, pc |-> "idle", backend |-> ""]

\* the routes a method reads with routes := r.backends[backendName]: nil for a
\* key that is not in the map
RoutesOf(backendName) ==
    IF backendName \in DOMAIN backends THEN backends[backendName] ELSE <<>>

\* where a call starts: AddBackend, Swap and HasRoute do not begin with
\* router.Retrieve
FirstStep(op) ==
    CASE op = "AddBackend" -> "check"
      [] op = "Swap" -> "swap"
      [] op = "HasRoute" -> "read"
      [] OTHER -> "retrieve"

At(p, op, pc) == procs[p].op = op /\ procs[p].pc = pc

Goto(p, pc) ==
    /\ procs' = [procs EXCEPT ![p].pc = pc]
    /\ UNCHANGED last

\* the call of p returns err (and data, for a reader)
Return(p, data, err) ==
    /\ procs' = [procs EXCEPT ![p] = Idle]
    /\ last' = Call(procs[p].op, procs[p].name, procs[p].addrs, NoCName, data, err)

appIdle == <<teams, prevTeams, members, env, app, events, hooks, fetches>>

Begin(p, op, name, addrs) ==
    /\ procs[p].pc = "idle"
    /\ started < MaxCalls
    /\ started' = started + 1
    /\ procs' = [procs EXCEPT ![p] = [op |-> op, name |-> name, addrs |-> addrs,
                                      pc |-> FirstStep(op), backend |-> ""]]
    /\ UNCHANGED <<router, last, appIdle>>

\* backendName, err := router.Retrieve(name), and RemoveBackend's comparison
\* of backendName with name
Resolve(p) ==
    LET got == Retrieve(procs[p].name)
    IN /\ procs[p].pc = "retrieve"
       /\ IF got.err # Nil
          THEN Return(p, NoData, got.err)
          ELSE IF procs[p].op = "RemoveBackend" /\ got.name # procs[p].name
          THEN Return(p, NoData, ErrBackendSwapped)
          ELSE /\ procs' = [procs EXCEPT ![p].backend = got.name,
                                         ![p].pc = IF procs[p].op = "Routes"
                                                   THEN "act" ELSE "check"]
               /\ UNCHANGED last
       /\ UNCHANGED <<router, started, appIdle>>

\* if !r.HasBackend(backendName) { return router.ErrBackendNotFound }
CheckBackend(p) ==
    /\ procs[p].pc = "check"
    /\ procs[p].op # "AddBackend"
    /\ IF ~HasBackend(procs[p].backend)
       THEN Return(p, NoData, ErrBackendNotFound)
       ELSE Goto(p, IF procs[p].op = "AddRoute" THEN "checkRoute" ELSE "act")
    /\ UNCHANGED <<router, started, appIdle>>

\* AddBackend: if r.HasBackend(name) { return router.ErrBackendExists }
AddBackendCheck(p) ==
    /\ At(p, "AddBackend", "check")
    /\ IF HasBackend(procs[p].name)
       THEN Return(p, NoData, ErrBackendExists)
       ELSE Goto(p, "act")
    /\ UNCHANGED <<router, started, appIdle>>

\* AddBackend: Lock(); r.backends[name] = nil; return router.Store(...)
AddBackendAct(p) ==
    LET st == Store(procs[p].name, procs[p].name)
    IN /\ At(p, "AddBackend", "act")
       /\ backends' = MapSet(backends, procs[p].name, <<>>)
       /\ records' = st.records
       /\ Return(p, NoData, st.err)
       /\ UNCHANGED <<cnames, failuresByIp, healthcheck, dbUp, started, appIdle>>

\* RemoveBackend: Lock(); purge the aliases; delete; return router.Remove(...)
RemoveBackendAct(p) ==
    LET backendName == procs[p].backend
        rm == Remove(backendName)
    IN /\ At(p, "RemoveBackend", "act")
       /\ cnames' = [c \in {x \in DOMAIN cnames : cnames[x] # backendName} |-> cnames[c]]
       /\ backends' = MapDelete(backends, backendName)
       /\ records' = rm.records
       /\ Return(p, NoData, rm.err)
       /\ UNCHANGED <<failuresByIp, healthcheck, dbUp, started, appIdle>>

\* AddRoutes: Lock(); failure scan; append loop; r.backends[backendName] = routes
AddRoutesAct(p) ==
    LET backendName == procs[p].backend
    IN /\ At(p, "AddRoutes", "act")
       /\ IF BatchFails(procs[p].addrs)
          THEN Return(p, NoData, ErrForcedFailure) /\ UNCHANGED backends
          ELSE /\ backends' = MapSet(backends, backendName,
                                     AppendNew(RoutesOf(backendName), procs[p].addrs))
               /\ Return(p, NoData, Nil)
       /\ UNCHANGED <<cnames, failuresByIp, healthcheck, records, dbUp, started, appIdle>>

\* RemoveRoutes: Lock(); failure scan; removal loop; r.backends[backendName] = routes
RemoveRoutesAct(p) ==
    LET backendName == procs[p].backend
    IN /\ At(p, "RemoveRoutes", "act")
       /\ IF BatchFails(procs[p].addrs)
          THEN Return(p, NoData, ErrForcedFailure) /\ UNCHANGED backends
          ELSE /\ backends' = MapSet(backends, backendName,
                                     DropEach(RoutesOf(backendName), procs[p].addrs))
               /\ Return(p, NoData, Nil)
       /\ UNCHANGED <<cnames, failuresByIp, healthcheck, records, dbUp, started, appIdle>>

\* AddRoute: if r.HasRoute(backendName, address) { return router.ErrRouteExists }
AddRouteCheckRoute(p) ==
    /\ At(p, "AddRoute", "checkRoute")
    /\ IF HasRoute(procs[p].backend, procs[p].addrs[1])
       THEN Return(p, NoData, ErrRouteExists)
       ELSE Goto(p, "act")
    /\ UNCHANGED <<router, started, appIdle>>

\* AddRoute: Lock(); failure test; append; r.backends[backendName] = routes
AddRouteAct(p) ==
    LET backendName == procs[p].backend
        address == procs[p].addrs[1]
    IN /\ At(p, "AddRoute", "act")
       /\ IF address \in failuresByIp
          THEN Return(p, NoData, ErrForcedFailure) /\ UNCHANGED backends
          ELSE /\ backends' = MapSet(backends, backendName,
                                     Append(RoutesOf(backendName), address))
               /\ Return(p, NoData, Nil)
       /\ UNCHANGED <<cnames, failuresByIp, healthcheck, records, dbUp, started, appIdle>>

\* RemoveRoute: Lock(); failure test; search; swap with the last; truncate
RemoveRouteAct(p) ==
    LET backendName == procs[p].backend
        address == procs[p].addrs[1]
        routes == RoutesOf(backendName)
    IN /\ At(p, "RemoveRoute", "act")
       /\ IF address \in failuresByIp
          THEN Return(p, NoData, ErrForcedFailure) /\ UNCHANGED backends
          ELSE IF IndexOf(routes, address) = 0
          THEN Return(p, NoData, ErrRouteNotFound) /\ UNCHANGED backends
          ELSE /\ backends' = MapSet(backends, backendName,
                                     SwapRemove(routes, IndexOf(routes, address)))
               /\ Return(p, NoData, Nil)
       /\ UNCHANGED <<cnames, failuresByIp, healthcheck, records, dbUp, started, appIdle>>

\* router.Swap with only the first name's record rewritten
SwapRecordsHalf(backend1, backend2) ==
    LET got1 == Retrieve(backend1)
        got2 == Retrieve(backend2)
    IN IF got1.err # Nil THEN [records |-> records, err |-> got1.err]
       ELSE IF got2.err # Nil THEN [records |-> records, err |-> got2.err]
       ELSE [records |-> MapSet(records, backend1, got2.name), err |-> Nil]

\* router.Swap(r, backend1, backend2): the records after it and its error
SwapRecords(backend1, backend2) ==
    LET got1 == Retrieve(backend1)
        got2 == Retrieve(backend2)
    IN IF got1.err # Nil THEN [records |-> records, err |-> got1.err]
       ELSE IF got2.err # Nil THEN [records |-> records, err |-> got2.err]
       ELSE [records |-> MapSet(MapSet(records, backend1, got2.name),
                                backend2, got1.name),
             err |-> Nil]

\* fakeRouter.Swap: return router.Swap(r, backend1, backend2)
SwapCall(p) ==
    LET sw == SwapRecords(procs[p].name, procs[p].addrs[1])
    IN /\ At(p, "Swap", "swap")
       /\ records' = sw.records
       /\ procs' = [procs EXCEPT ![p] = Idle]
       /\ last' = Call("Swap", procs[p].name, <<>>, NoCName, procs[p].addrs[1], sw.err)
       /\ UNCHANGED <<backends, cnames, failuresByIp, healthcheck, dbUp, started, appIdle>>

\* Routes: Lock(); routes := r.backends[backendName]; the list returned is
\* recorded in the addrs of the call
RoutesRead(p) ==
    /\ At(p, "Routes", "act")
    /\ procs' = [procs EXCEPT ![p] = Idle]
    /\ last' = Call("Routes", procs[p].name, RoutesOf(procs[p].backend), NoCName,
                    NoData, Nil)
    /\ UNCHANGED <<router, started, appIdle>>

\* HasRoute called by a reader; the answer is returned
HasRouteRead(p) ==
    /\ At(p, "HasRoute", "read")
    /\ Return(p, IF HasRoute(procs[p].name, procs[p].addrs[1]) THEN "true" ELSE "false",
              Nil)
    /\ UNCHANGED <<router, started, appIdle>>

InitConc ==
    /\ backends = EmptyMap
    /\ cnames = EmptyMap
    /\ failuresByIp = {}
    /\ healthcheck = EmptyMap
    /\ records = EmptyMap
    /\ dbUp = TRUE
    /\ last = [op |-> "new", name |-> "", addrs |-> <<>>, cname |-> NoCName,
               data |-> NoData, err |-> Nil, calls |-> "even"]
    /\ procs = [p \in Procs |-> Idle]
    /\ started = 0
    /\ teams = <<>>
    /\ prevTeams = <<>>
    /\ members = {}
    /\ env = <<>>
    /\ app = <<>>
    /\ events = <<>>
    /\ hooks = NoHooks
    /\ fetches = 0

NextBegin ==
    \/ \E p \in Procs, name \in Names : Begin(p, "AddBackend", name, <<>>)
    \/ \E p \in Procs, name \in Names : Begin(p, "RemoveBackend", name, <<>>)
    \/ \E p \in Procs, name \in Names, addresses \in ShortBatches :
          Begin(p, "AddRoutes", name, addresses)
    \/ \E p \in Procs, name \in Names, addresses \in ShortBatches :
          Begin(p, "RemoveRoutes", name, addresses)
    \/ \E p \in Procs, name \in Names, address \in Addrs :
          Begin(p, "AddRoute", name, <<address>>)
    \/ \E p \in Procs, name \in Names, address \in Addrs :
          Begin(p, "RemoveRoute", name, <<address>>)
    \/ \E p \in Procs, backend1, backend2 \in Names :
          Begin(p, "Swap", backend1, <<backend2>>)
    \/ \E p \in Procs, name \in Names : Begin(p, "Routes", name, <<>>)
    \/ \E p \in Procs, name \in Names, address \in Addrs :
          Begin(p, "HasRoute", name, <<address>>)

NextConc ==
    \/ NextBegin
    \/ \E p \in Procs : Resolve(p)
    \/ \E p \in Procs : CheckBackend(p)
    \/ \E p \in Procs : AddBackendCheck(p)
    \/ \E p \in Procs : AddBackendAct(p)
    \/ \E p \in Procs : RemoveBackendAct(p)
    \/ \E p \in Procs : AddRoutesAct(p)
    \/ \E p \in Procs : RemoveRoutesAct(p)
    \/ \E p \in Procs : AddRouteCheckRoute(p)
    \/ \E p \in Procs : AddRouteAct(p)
    \/ \E p \in Procs : RemoveRouteAct(p)
    \/ \E p \in Procs : SwapCall(p)
    \/ \E p \in Procs : RoutesRead(p)
    \/ \E p \in Procs : HasRouteRead(p)

SpecConc == InitConc /\ [][NextConc]_vars

(***************************************************************************)
(* package app: the team list of an App.  Team names are modelled by the   *)
(* numbers 1..NumTeams, ordered as the names are by Go's string order; 0   *)
(* stands for the empty string, which sorts before every name.  prevTeams  *)
(* is the list before the last call and members the teams that should be   *)
(* on the list: those of the start, plus the granted, minus the revoked.   *)
(***************************************************************************)
\* the team names
NumTeams == 4
\* the longest team list a Grant is started on
MaxTeams == 5

Teams == 1..NumTeams

EmptyName == 0

ErrTeamHasAccess == "This team already has access to this app"
ErrTeamNoAccess == "This team does not have access to this app"

\* sort.Search(len(a.Teams), func(i) { return a.Teams[i] >= team.Name }),
\* with the indices i, j, h counted from 0 as in Go
RECURSIVE Search(_, _, _, _)
Search(list, team, i, j) ==
    IF i < j
    THEN LET h == (i + j) \div 2
         IN IF ~(list[h + 1] >= team)
            THEN Search(list, team, h + 1, j)
            ELSE Search(list, team, i, h)
    ELSE i

\* App.Find: the position (from 0) and whether the team is there
Find(list, team) ==
    LET pos == Search(list, team, 0, Len(list))
    IN [pos |-> pos, found |-> pos < Len(list) /\ list[pos + 1] = team]

\* for i := pos; i < len(a.Teams)-1; i++ { a.Teams[i+1], tmp = tmp, a.Teams[i] }
\* both right-hand sides are read before either assignment
RECURSIVE GrantLoop(_, _, _)
GrantLoop(list, tmp, i) ==
    IF i < Len(list) - 1
    THEN GrantLoop([list EXCEPT ![i + 2] = tmp], list[i + 1], i + 1)
    ELSE list

\* the body of App.Grant after the found test
GrantAt(list, pos, team) ==
    LET grown == Append(list, EmptyName)
        tmp == grown[pos + 1]
        shifted == GrantLoop(grown, tmp, pos)
    IN [shifted EXCEPT ![pos + 1] = team]

Grant(team) ==
    LET f == Find(teams, team)
    IN /\ Len(teams) < MaxTeams
       /\ prevTeams' = teams
       /\ IF f.found
          THEN /\ last' = Call("Grant", "", <<>>, NoCName, team, ErrTeamHasAccess)
               /\ UNCHANGED <<teams, members>>
          ELSE /\ teams' = GrantAt(teams, f.pos, team)
               /\ members' = members \cup {team}
               /\ last' = Call("Grant", "", <<>>, NoCName, team, Nil)
       /\ UNCHANGED <<router, procs, started, env, app, events, hooks, fetches>>

\* copy(a.Teams[index:], a.Teams[index+1:]); a.Teams = a.Teams[:len(a.Teams)-1]
Revoke(team) ==
    LET f == Find(teams, team)
    IN /\ prevTeams' = teams
       /\ IF ~f.found
          THEN /\ last' = Call("Revoke", "", <<>>, NoCName, team, ErrTeamNoAccess)
               /\ UNCHANGED <<teams, members>>
          ELSE /\ teams' = RemoveAt(teams, f.pos + 1)
               /\ members' = members \ {team}
               /\ last' = Call("Revoke", "", <<>>, NoCName, team, Nil)
       /\ UNCHANGED <<router, procs, started, env, app, events, hooks, fetches>>

\* the elements of a set of numbers in ascending order
RECURSIVE Ascending(_)
Ascending(S) ==
    IF S = {} THEN <<>>
    ELSE LET least == CHOOSE x \in S : \A y \in S : x <= y
         IN <<least>> \o Ascending(S \ {least})

StrictlyAscending(list) == \A i \in 1..(Len(list) - 1) : list[i] < list[i + 1]

\* an App with any sorted, duplicate-free team list
InitTeams ==
    /\ backends = EmptyMap
    /\ cnames = EmptyMap
    /\ failuresByIp = {}
    /\ healthcheck = EmptyMap
    /\ records = EmptyMap
    /\ dbUp = TRUE
    /\ last = [op |-> "new", name |-> "", addrs |-> <<>>, cname |-> NoCName,
               data |-> EmptyName, err |-> Nil, calls |-> "even"]
    /\ procs = <<>>
    /\ started = 0
    /\ \E S \in SUBSET Teams : teams = Ascending(S)
    /\ prevTeams = teams
    /\ members = Range(teams)
    /\ env = <<>>
    /\ app = <<>>
    /\ events = <<>>
    /\ hooks = NoHooks
    /\ fetches = 0

NextTeams ==
    \/ \E team \in Teams : Grant(team)
    \/ \E team \in Teams : Revoke(team)

SpecTeams == InitTeams /\ [][NextTeams]_vars

(***************************************************************************)
(* package app: the environment of an App.  env is App.Env, a map from a   *)
(* variable's name to its bind.EnvVar (name, value, public).               *)
(***************************************************************************)
\* the longest list of variables in one call
MaxEnvs == 1

VarNames == {"X", "Y"}
Values == {"1", "2"}

EnvVars == [name : VarNames, value : Values, public : BOOLEAN]

ErrUpdate == "update failed"
ErrQueue == "enqueue failed"

\* App.getEnv: whether the variable is declared, and the variable
getEnv(e, name) ==
    IF name \in DOMAIN e THEN [ok |-> TRUE, env |-> e[name]]
    ELSE [ok |-> FALSE, env |-> [name |-> "", value |-> "", public |-> FALSE]]

\* App.setEnv: a.Env[env.Name] = env
setEnv(e, var) == MapSet(e, var.name, var)

\* the loop of SetEnvsToApp with every variable set, whatever publicOnly says
RECURSIVE SetLoopUngated(_, _, _)
SetLoopUngated(e, envs, publicOnly) ==
    IF envs = <<>> THEN e
    ELSE SetLoopUngated(setEnv(e, Head(envs)), Tail(envs), publicOnly)

\* for _, env := range envs { ... } of SetEnvsToApp
RECURSIVE SetLoop(_, _, _)
SetLoop(e, envs, publicOnly) ==
    IF envs = <<>> THEN e
    ELSE LET var == Head(envs)
             got == getEnv(e, var.name)
             set == ~(publicOnly /\ got.ok /\ ~got.env.public)
         IN SetLoop(IF set THEN setEnv(e, var) ELSE e, Tail(envs), publicOnly)

\* for _, name := range variableNames { ... } of UnsetEnvsFromApp
RECURSIVE UnsetLoop(_, _, _)
UnsetLoop(e, variableNames, publicOnly) ==
    IF variableNames = <<>> THEN e
    ELSE LET name == Head(variableNames)
             got == getEnv(e, name)
             unset == ~publicOnly \/ (got.ok /\ got.env.public)
         IN UnsetLoop(IF unset THEN MapDelete(e, name) ELSE e,
                      Tail(variableNames), publicOnly)

\* the variables are set in memory before the application is written to the
\* database, so the call may return an error with the variables set
SetEnvsToApp(envs, publicOnly, useQueue) ==
    /\ IF Len(envs) > 0
       THEN /\ env' = SetLoop(env, envs, publicOnly)
            /\ \E err \in {Nil, ErrUpdate} \cup (IF useQueue THEN {ErrQueue} ELSE {}) :
                  last' = Call("SetEnvsToApp", "", envs, NoCName, publicOnly, err)
       ELSE /\ env' = env
            /\ last' = Call("SetEnvsToApp", "", envs, NoCName, publicOnly, Nil)
    /\ UNCHANGED <<router, procs, started, teams, prevTeams, members, app, events,
                   hooks, fetches>>

UnsetEnvsFromApp(variableNames, publicOnly, useQueue) ==
    /\ IF Len(variableNames) > 0
       THEN /\ env' = UnsetLoop(env, variableNames, publicOnly)
            /\ \E err \in {Nil, ErrUpdate} :
                  last' = Call("UnsetEnvsFromApp", "", variableNames, NoCName,
                               publicOnly, err)
       ELSE /\ env' = env
            /\ last' = Call("UnsetEnvsFromApp", "", variableNames, NoCName,
                            publicOnly, Nil)
    /\ UNCHANGED <<router, procs, started, teams, prevTeams, members, app, events,
                   hooks, fetches>>

\* an App with no environment variable
InitEnv ==
    /\ backends = EmptyMap
    /\ cnames = EmptyMap
    /\ failuresByIp = {}
    /\ healthcheck = EmptyMap
    /\ records = EmptyMap
    /\ dbUp = TRUE
    /\ last = [op |-> "new", name |-> "", addrs |-> <<>>, cname |-> NoCName,
               data |-> FALSE, err |-> Nil, calls |-> "even"]
    /\ procs = <<>>
    /\ started = 0
    /\ teams = <<>>
    /\ prevTeams = <<>>
    /\ members = {}
    /\ env = EmptyMap
    /\ app = <<>>
    /\ events = <<>>
    /\ hooks = NoHooks
    /\ fetches = 0

NextEnv ==
    \/ \E envs \in SeqsUpTo(EnvVars, MaxEnvs), publicOnly, useQueue \in BOOLEAN :
          SetEnvsToApp(envs, publicOnly, useQueue)
    \/ \E variableNames \in SeqsUpTo(VarNames, MaxEnvs), publicOnly, useQueue \in BOOLEAN :
          UnsetEnvsFromApp(variableNames, publicOnly, useQueue)

SpecEnv == InitEnv /\ [][NextEnv]_vars

(***************************************************************************)
(* package app: creation and destruction of an App.  An application name   *)
(* is modelled by its runs of characters of one class, <<class, length>>,  *)
(* so that names of 63 and 64 characters are among the inputs.  app is the *)
(* application with what exists for it (record, bucket and credentials,    *)
(* repository, provisioned service), its units and the service instances   *)
(* bound to it; events is the trace of the last call.                      *)
(***************************************************************************)
\* {0,62} of the pattern: the characters a name may have after the first
MaxRest == 62

Classes == {"lower", "digit", "upper", "other"}
RunLens == {1, MaxRest, MaxRest + 1}
Runs == Classes \X RunLens
\* the empty name, the names of one run, and the names of one lower-case
\* letter followed by one run
AppNames ==
    {<<>>} \cup {<<r>> : r \in Runs} \cup {<<<<"lower", 1>>, r>> : r \in Runs}

Machines == {"m1"}
Instances == {"i1", "i2"}

Actions == <<"insertApp", "createBucketIam", "createRepository", "provision">>

ErrValidation == "ValidationError"
ErrForward == [a \in Range(Actions) |-> "forward failed"]
ErrBucket == "destroyBucket failed"
ErrUnit == "Failed to destroy unit"
ErrFind == "find instances failed"
ErrUnbind == "Failed to unbind the following instances"
ErrRemove == "remove failed"

RECURSIVE NameLen(_)
NameLen(name) ==
    IF name = <<>> THEN 0 ELSE Head(name)[2] + NameLen(Tail(name))

\* the pattern with no limit on the length: ^[a-z][a-z0-9]*$
isValidAnyLength(name) ==
    /\ name # <<>>
    /\ name[1][1] = "lower"
    /\ \A i \in 1..Len(name) : name[i][1] \in {"lower", "digit"}

\* regexp ^[a-z][a-z0-9]{0,62}$ matched against the whole name
isValid(name) ==
    /\ name # <<>>
    /\ name[1][1] = "lower"
    /\ \A i \in 1..Len(name) : name[i][1] \in {"lower", "digit"}
    /\ NameLen(name) - 1 <= MaxRest

NoApp ==
    [insertApp |-> FALSE, createBucketIam |-> FALSE,
     createRepository |-> FALSE, provision |-> FALSE, units |-> {}, instances |-> {}]

\* backward on the steps k, k-1 .. 1; a backward that fails leaves what its
\* step made
RECURSIVE Rollback(_, _, _)
Rollback(a, k, backFails) ==
    IF k = 0 THEN [app |-> a, events |-> <<>>]
    ELSE LET undone == IF k \in backFails THEN a
                       ELSE [a EXCEPT ![Actions[k]] = FALSE]
             rest == Rollback(undone, k - 1, backFails)
         IN [app |-> rest.app, events |-> <<<<"backward", Actions[k]>>>> \o rest.events]

\* execute with the backward calls made in the order of the forward calls
RECURSIVE executeNoReverse(_, _, _, _)
executeNoReverse(a, k, failAt, backFails) ==
    IF k > Len(Actions) THEN [app |-> a, events |-> <<>>, err |-> Nil]
    ELSE IF k = failAt
    THEN [app |-> Rollback(a, k - 1, backFails).app,
          events |-> <<<<"forward", Actions[k]>>>>
                     \o [i \in 1..(k - 1) |-> <<"backward", Actions[i]>>],
          err |-> ErrForward[Actions[k]]]
    ELSE LET rest == executeNoReverse([a EXCEPT ![Actions[k]] = TRUE], k + 1,
                                      failAt, backFails)
         IN [app |-> rest.app,
             events |-> <<<<"forward", Actions[k]>>>> \o rest.events,
             err |-> rest.err]

\* execute(a, actions) from step k on: forward in order; when the forward of
\* step failAt fails, backward on the steps before it, last first, and the
\* forward error is returned
RECURSIVE execute(_, _, _, _)
execute(a, k, failAt, backFails) ==
    IF k > Len(Actions) THEN [app |-> a, events |-> <<>>, err |-> Nil]
    ELSE IF k = failAt
    THEN LET back == Rollback(a, k - 1, backFails)
         IN [app |-> back.app,
             events |-> <<<<"forward", Actions[k]>>>> \o back.events,
             err |-> ErrForward[Actions[k]]]
    ELSE LET rest == execute([a EXCEPT ![Actions[k]] = TRUE], k + 1, failAt, backFails)
         IN [app |-> rest.app,
             events |-> <<<<"forward", Actions[k]>>>> \o rest.events,
             err |-> rest.err]

\* nothing exists yet for an application
Clean ==
    \A i \in 1..Len(Actions) : ~app[Actions[i]]

\* failAt is the step whose forward fails (0: none), backFails the steps whose
\* backward fails; neither is consulted for a name that is not valid
CreateApp(name, failAt, backFails) ==
    /\ isValid(name) => Clean
    /\ ~isValid(name) => (failAt = 0 /\ backFails = {})
    /\ IF ~isValid(name)
       THEN /\ events' = <<>>
            /\ app' = app
            /\ last' = Call("CreateApp", "", name, NoCName, failAt, ErrValidation)
       ELSE LET run == execute(app, 1, failAt, backFails)
            IN /\ events' = run.events
               /\ app' = run.app
               /\ last' = Call("CreateApp", "", name, NoCName, failAt, run.err)
    /\ UNCHANGED <<router, procs, started, teams, prevTeams, members, env, hooks, fetches>>

AddUnit(machine) ==
    /\ app.insertApp
    /\ app' = [app EXCEPT !.units = @ \cup {machine}]
    /\ events' = <<>>
    /\ last' = Call("AddUnit", machine, <<>>, NoCName, 0, Nil)
    /\ UNCHANGED <<router, procs, started, teams, prevTeams, members, env, hooks, fetches>>

\* a service instance is bound to the application
Bind(instance) ==
    /\ app.insertApp
    /\ instance \notin app.instances
    /\ app' = [app EXCEPT !.instances = @ \cup {instance}]
    /\ UNCHANGED <<router, last, procs, started, teams, prevTeams, members, env, events,
                   hooks, fetches>>

\* the orders in which the query may return the bound instances
Orders(S) == {q \in SeqsUpTo(S, Cardinality(S)) : Range(q) = S /\ Len(q) = Cardinality(S)}

\* the loop of unbind left at the first instance whose Unbind fails
RECURSIVE UnbindUntilFailure(_, _)
UnbindUntilFailure(instances, failing) ==
    IF instances = <<>> THEN <<>>
    ELSE IF Head(instances) \in failing
    THEN <<<<"unbind", Head(instances)>>, <<"unbind failed", Head(instances)>>,
           <<"addMsg", Head(instances)>>>>
    ELSE <<<<"unbind", Head(instances)>>>> \o UnbindUntilFailure(Tail(instances), failing)

\* the loop of unbind: instance.Unbind(a) is called on every instance, and for
\* one that returns an error addMsg puts its name into the message
RECURSIVE UnbindEach(_, _)
UnbindEach(instances, failing) ==
    IF instances = <<>> THEN <<>>
    ELSE <<<<"unbind", Head(instances)>>>>
         \o (IF Head(instances) \in failing
             THEN <<<<"unbind failed", Head(instances)>>, <<"addMsg", Head(instances)>>>>
             ELSE <<>>)
         \o UnbindEach(Tail(instances), failing)

\* unbind that reports no failure of an instance
unbindSilent(findFails, instances, failing) ==
    IF findFails THEN [events |-> <<<<"find", "instances">>>>, err |-> ErrFind]
    ELSE [events |-> <<<<"find", "instances">>>> \o UnbindEach(instances, failing),
          err |-> Nil]

\* App.unbind: the error of the query, or errors.New(msg) when addMsg has put
\* a name into msg, or nil
unbind(findFails, instances, failing) ==
    IF findFails THEN [events |-> <<<<"find", "instances">>>>, err |-> ErrFind]
    ELSE LET tried == UnbindEach(instances, failing)
         IN [events |-> <<<<"find", "instances">>>> \o tried,
             err |-> IF \E k \in 1..Len(tried) : tried[k][1] = "addMsg"
                     THEN ErrUnbind ELSE Nil]

\* App.Destroy up to, and without, the removal of the record
Teardown(bucketFails, unitFails, findFails, instances, failing) ==
    IF bucketFails THEN [events |-> <<<<"destroy", "bucket">>>>, err |-> ErrBucket]
    ELSE IF app.units = {} THEN [events |-> <<<<"destroy", "bucket">>>>, err |-> Nil]
    ELSE IF unitFails
    THEN [events |-> <<<<"destroy", "bucket">>, <<"destroy", "unit">>>>, err |-> ErrUnit]
    ELSE LET ub == unbind(findFails, instances, failing)
         IN [events |-> <<<<"destroy", "bucket">>, <<"destroy", "unit">>>> \o ub.events,
             err |-> ub.err]

\* the query of unbind returns the bound instances in some order
Destroy(bucketFails, unitFails, findFails, failing, removeFails) ==
    /\ app.insertApp
    /\ \E instances \in Orders(app.instances) :
          LET down == Teardown(bucketFails, unitFails, findFails, instances, failing)
          IN IF down.err # Nil
             THEN /\ events' = down.events
                  /\ app' = [app EXCEPT !.createBucketIam = @ /\ bucketFails]
                  /\ last' = Call("Destroy", "", <<>>, NoCName, 0, down.err)
             ELSE /\ events' = Append(down.events, <<"remove", "record">>)
                  /\ app' = [app EXCEPT !.createBucketIam = FALSE,
                                        !.insertApp = removeFails]
                  /\ last' = Call("Destroy", "", <<>>, NoCName, 0,
                                  IF removeFails THEN ErrRemove ELSE Nil)
    /\ UNCHANGED <<router, procs, started, teams, prevTeams, members, env, hooks, fetches>>

InitApp ==
    /\ backends = EmptyMap
    /\ cnames = EmptyMap
    /\ failuresByIp = {}
    /\ healthcheck = EmptyMap
    /\ records = EmptyMap
    /\ dbUp = TRUE
    /\ last = [op |-> "new", name |-> "", addrs |-> <<>>, cname |-> NoCName,
               data |-> 0, err |-> Nil, calls |-> "even"]
    /\ procs = <<>>
    /\ started = 0
    /\ teams = <<>>
    /\ prevTeams = <<>>
    /\ members = {}
    /\ env = <<>>
    /\ app = NoApp
    /\ events = <<>>
    /\ hooks = NoHooks
    /\ fetches = 0

NextApp ==
    \/ \E name \in AppNames, failAt \in 0..Len(Actions),
          backFails \in SUBSET (1..(Len(Actions) - 1)) :
          CreateApp(name, failAt, backFails)
    \/ \E machine \in Machines : AddUnit(machine)
    \/ \E instance \in Instances : Bind(instance)
    \/ \E bucketFails, unitFails, findFails, removeFails \in BOOLEAN,
          failing \in SUBSET Instances :
          Destroy(bucketFails, unitFails, findFails, failing, removeFails)

SpecApp == InitApp /\ [][NextApp]_vars

(***************************************************************************)
(* package app: restart and its hooks.  hooks is App.hooks: loaded tells   *)
(* whether the pointer is set, pre and pos are the command lists of the    *)
(* conf, and first remembers how the load that set the pointer ended.      *)
(* events is the trace of the last call: reads of app.conf, writes to the  *)
(* output, commands run in the unit, the unit's restart hook.              *)
(***************************************************************************)
\* the longest list of commands of one hook
MaxHooks == 1

Cmds == {"c1", "c2"}

\* path.Join(repoPath, command)
AbsPath == [c \in Cmds |-> IF c = "c1" THEN "/repo/c1" ELSE "/repo/c2"]

HookLists == SeqsUpTo(Cmds, MaxHooks)

\* the contents a.hooks can have after a load
Confs == [loaded : {TRUE}, first : {Nil}, pre : HookLists, pos : HookLists]

ErrPath == "repository path error"
ErrFetch == "command error"
ErrParse == "yaml error"
ErrWrite == "write error"
ErrRun == "hook command failed"
ErrHook == "restart hook failed"

LoadOutcomes == {Nil, ErrPath, ErrFetch, ErrParse}

\* loadHooks with the pointer set only by a load that succeeds
loadHooksOnSuccess(h, outcome, conf) ==
    IF h.loaded THEN [hooks |-> h, err |-> Nil, events |-> <<>>]
    ELSE IF outcome = ErrPath
    THEN [hooks |-> h, err |-> ErrPath, events |-> <<>>]
    ELSE IF outcome = ErrFetch
    THEN [hooks |-> h, err |-> Nil, events |-> <<<<"fetch", "app.conf">>>>]
    ELSE IF outcome = ErrParse
    THEN [hooks |-> h, err |-> ErrParse, events |-> <<<<"fetch", "app.conf">>>>]
    ELSE [hooks |-> conf, err |-> Nil, events |-> <<<<"fetch", "app.conf">>>>]

\* App.loadHooks on hooks h.  outcome is how a load would end and conf what
\* goyaml.Unmarshal leaves in a.hooks, both unread when h is loaded.  The
\* pointer is set before anything can fail; a failed read of app.conf is
\* logged and nil returned.
loadHooks(h, outcome, conf) ==
    IF h.loaded THEN [hooks |-> h, err |-> Nil, events |-> <<>>]
    ELSE IF outcome = ErrPath
    THEN [hooks |-> [NoHooks EXCEPT !.loaded = TRUE, !.first = ErrPath],
          err |-> ErrPath, events |-> <<>>]
    ELSE IF outcome = ErrFetch
    THEN [hooks |-> [NoHooks EXCEPT !.loaded = TRUE, !.first = ErrFetch],
          err |-> Nil, events |-> <<<<"fetch", "app.conf">>>>]
    ELSE IF outcome = ErrParse
    THEN [hooks |-> [conf EXCEPT !.first = ErrParse],
          err |-> ErrParse, events |-> <<<<"fetch", "app.conf">>>>]
    ELSE [hooks |-> conf, err |-> Nil, events |-> <<<<"fetch", "app.conf">>>>]

\* deployHookAbsPath: the empty string (and a nil error) when git:unit-repo
\* is not configured, the command itself when its file is not in the
\* repository, else the command with the absolute path
deployHookAbsPath(cmd, form) ==
    IF form = "unconfigured" THEN ""
    ELSE IF form = "missing" THEN cmd
    ELSE AbsPath[cmd]

\* the loop of runHook: a.Run of each command; the first that fails ends it
RECURSIVE RunEach(_, _, _)
RunEach(cmds, form, failing) ==
    IF cmds = <<>> THEN [events |-> <<>>, err |-> Nil]
    ELSE LET p == deployHookAbsPath(Head(cmds), form)
         IN IF Head(cmds) \in failing
            THEN [events |-> <<<<"run", p>>>>, err |-> ErrRun]
            ELSE LET rest == RunEach(Tail(cmds), form, failing)
                 IN [events |-> <<<<"run", p>>>> \o rest.events, err |-> rest.err]

\* App.runHook: nothing for an empty list, else the header is written and the
\* commands are run
runHook(cmds, kind, writeFails, form, failing) ==
    IF cmds = <<>> THEN [events |-> <<>>, err |-> Nil]
    ELSE IF writeFails = kind THEN [events |-> <<<<"write", kind>>>>, err |-> ErrWrite]
    ELSE LET ran == RunEach(cmds, form, failing)
         IN [events |-> <<<<"write", kind>>>> \o ran.events, err |-> ran.err]

\* App.preRestart and App.posRestart: loadHooks, then runHook on the list
hookCall(kind, outcome, conf, writeFails, form, failing) ==
    LET ld == loadHooks(hooks, outcome, conf)
        ran == runHook(IF kind = "pre-restart" THEN ld.hooks.pre ELSE ld.hooks.pos,
                       kind, writeFails, form, failing)
    IN IF ld.err # Nil
       THEN [hooks |-> ld.hooks, events |-> ld.events, err |-> ld.err]
       ELSE [hooks |-> ld.hooks, events |-> ld.events \o ran.events, err |-> ran.err]

\* how the load of a call can end, with what it leaves in a.hooks: one value
\* for what the call does not read
Loads ==
    LET unread == [NoHooks EXCEPT !.loaded = TRUE]
    IN IF hooks.loaded THEN {<<Nil, unread>>}
       ELSE {<<ErrPath, unread>>, <<ErrFetch, unread>>}
            \cup ({Nil, ErrParse} \X Confs)

Fetched(evs) == Len(SelectSeq(evs, LAMBDA e : e = <<"fetch", "app.conf">>))

preRestart(writeFails, form, failing) ==
    /\ writeFails \in {"none", "pre-restart"}
    /\ \E load \in Loads :
          LET r == hookCall("pre-restart", load[1], load[2], writeFails, form, failing)
          IN /\ hooks' = r.hooks
             /\ events' = r.events
             /\ fetches' = fetches + Fetched(r.events)
             /\ last' = Call("preRestart", "", <<>>, NoCName, NoData, r.err)
    /\ UNCHANGED <<router, procs, started, teams, prevTeams, members, env, app>>

posRestart(writeFails, form, failing) ==
    /\ writeFails \in {"none", "pos-restart"}
    /\ \E load \in Loads :
          LET r == hookCall("pos-restart", load[1], load[2], writeFails, form, failing)
          IN /\ hooks' = r.hooks
             /\ events' = r.events
             /\ fetches' = fetches + Fetched(r.events)
             /\ last' = Call("posRestart", "", <<>>, NoCName, NoData, r.err)
    /\ UNCHANGED <<router, procs, started, teams, prevTeams, members, env, app>>

\* Restart: preRestart, the marker, posRestart, the unit's restart hook, each
\* returning its error at once.  writeFails is the write that fails, if one
\* is reached; outcome and conf are how a load ends, if one is made.
RestartRun(outcome, conf, writeFails, form, failing, hookFails) ==
    LET pre == hookCall("pre-restart", outcome, conf, writeFails, form, failing)
        ld == loadHooks(pre.hooks, outcome, conf)
        pos == runHook(ld.hooks.pos, "pos-restart", writeFails, form, failing)
        marker == <<<<"write", "restart marker">>>>
    IN IF pre.err # Nil
       THEN [hooks |-> pre.hooks, events |-> pre.events, err |-> pre.err]
       ELSE IF writeFails = "restart marker"
       THEN [hooks |-> pre.hooks, events |-> pre.events \o marker, err |-> ErrWrite]
       ELSE IF ld.err # Nil
       THEN [hooks |-> ld.hooks, events |-> pre.events \o marker \o ld.events,
             err |-> ld.err]
       ELSE IF pos.err # Nil
       THEN [hooks |-> ld.hooks,
             events |-> pre.events \o marker \o ld.events \o pos.events,
             err |-> pos.err]
       ELSE [hooks |-> ld.hooks,
             events |-> pre.events \o marker \o ld.events \o pos.events
                        \o <<<<"hook", "restart">>>>,
             err |-> IF hookFails THEN ErrHook ELSE Nil]

Restart(writeFails, form, failing, hookFails) ==
    /\ \E load \in Loads :
          LET r == RestartRun(load[1], load[2], writeFails, form, failing, hookFails)
          IN /\ hooks' = r.hooks
             /\ events' = r.events
             /\ fetches' = fetches + Fetched(r.events)
             /\ last' = Call("Restart", "", <<>>, NoCName, NoData, r.err)
    /\ UNCHANGED <<router, procs, started, teams, prevTeams, members, env, app>>

\* an App whose hooks have not been loaded
InitHooks ==
    /\ backends = EmptyMap
    /\ cnames = EmptyMap
    /\ failuresByIp = {}
    /\ healthcheck = EmptyMap
    /\ records = EmptyMap
    /\ dbUp = TRUE
    /\ last = [op |-> "new", name |-> "", addrs |-> <<>>, cname |-> NoCName,
               data |-> NoData, err |-> Nil, calls |-> "even"]
    /\ procs = <<>>
    /\ started = 0
    /\ teams = <<>>
    /\ prevTeams = <<>>
    /\ members = {}
    /\ env = <<>>
    /\ app = <<>>
    /\ events = <<>>
    /\ hooks = NoHooks
    /\ fetches = 0

Writes == {"none", "pre-restart", "restart marker", "pos-restart"}
Forms == {"unconfigured", "missing", "absolute"}

NextHooks ==
    \/ \E writeFails \in Writes, form \in Forms, failing \in SUBSET Cmds :
          preRestart(writeFails, form, failing)
    \/ \E writeFails \in Writes, form \in Forms, failing \in SUBSET Cmds :
          posRestart(writeFails, form, failing)
    \/ \E writeFails \in Writes, form \in Forms, failing \in SUBSET Cmds,
          hookFails \in BOOLEAN :
          Restart(writeFails, form, failing, hookFails)

SpecHooks == InitHooks /\ [][NextHooks]_vars

(***************************************************************************)
(* Properties.  In an action formula the unprimed variables are the state  *)
(* before the call and last' is the call made in the step.                 *)
(***************************************************************************)
\* the step is the call op
Made(op) == last' # last /\ last'.op = op

\* the name-resolution record maps name to a backend that is registered
Registered(name) == name \in DOMAIN records /\ records[name] \in DOMAIN backends

\* the name-resolution record maps name to a backend that is not registered
Unregistered(name) == name \in DOMAIN records /\ records[name] \notin DOMAIN backends

MutatingOps ==
    {"AddBackend", "RemoveBackend", "AddRoute", "AddRoutes", "RemoveRoute",
     "RemoveRoutes", "SetCName", "UnsetCName", "SetHealthcheck"}

\* C1: an AddRoutes or RemoveRoutes call on a name that resolves to a
\* registered backend, with a flagged address anywhere in the batch, returns
\* the forced failure and leaves every route set as it was.
C1_BatchAllOrNothing ==
    [][(/\ (Made("AddRoutes") \/ Made("RemoveRoutes"))
        /\ Registered(last'.name)
        /\ \E i \in 1..Len(last'.addrs) : last'.addrs[i] \in failuresByIp)
       => (last'.err = ErrForcedFailure /\ backends' = backends)]_vars

\* an AddRoutes call was rejected for its second address, while its first
\* address is neither flagged nor in the route set
C1_Witness ==
    /\ last.op = "AddRoutes"
    /\ last.err = ErrForcedFailure
    /\ Len(last.addrs) = 2
    /\ last.addrs[2] \in failuresByIp
    /\ last.addrs[1] \notin failuresByIp
    /\ Registered(last.name)
    /\ last.addrs[1] \notin Range(backends[records[last.name]])

\* C2: a mutating call that returns an error leaves the backend map, the
\* alias map and the health map as they were.
C2_ErrorLeavesStateUnchanged ==
    [][(last' # last /\ last'.op \in MutatingOps /\ last'.err # Nil)
       => UNCHANGED registry]_vars

\* C3: AddBackend on a name not in the backend map registers it with no
\* routes, stores the record name -> name and makes HasBackend true; on a
\* name in the backend map it returns ErrBackendExists and changes neither
\* the backend map nor the record.
C3_AddBackend ==
    [][Made("AddBackend")
       => IF last'.name \notin DOMAIN backends
          THEN /\ last'.err = Nil
               /\ \A n \in Names : n = last'.name => HasBackend(n)'
               /\ backends'[last'.name] = <<>>
               /\ last'.name \in DOMAIN records'
               /\ records'[last'.name] = last'.name
          ELSE /\ last'.err = ErrBackendExists
               /\ backends' = backends
               /\ records' = records]_vars

\* AddBackend was refused for a backend that has routes
C3_Witness ==
    /\ last.op = "AddBackend"
    /\ last.err = ErrBackendExists
    /\ backends[last.name] # <<>>

\* C4: RemoveBackend returns ErrBackendSwapped when the record maps the name
\* to another name, ErrBackendNotFound when it maps the name to itself and
\* that backend is not registered; both leave backends, aliases and records.
C4_RemoveBackendRejected ==
    [][(Made("RemoveBackend") /\ last'.name \in DOMAIN records)
       => /\ records[last'.name] # last'.name
             => (last'.err = ErrBackendSwapped
                 /\ UNCHANGED <<backends, cnames, records>>)
          /\ (records[last'.name] = last'.name /\ last'.name \notin DOMAIN backends)
             => (last'.err = ErrBackendNotFound
                 /\ UNCHANGED <<backends, cnames, records>>)]_vars

\* RemoveBackend was refused as swapped, while the backend the name resolves
\* to is registered, has a route and an alias
C4_Witness ==
    /\ last.op = "RemoveBackend"
    /\ last.err = ErrBackendSwapped
    /\ Registered(last.name)
    /\ backends[records[last.name]] # <<>>
    /\ \E c \in DOMAIN cnames : cnames[c] = records[last.name]

\* C5: after a successful RemoveBackend the backend is not registered, no
\* alias maps to it and GetHealthcheck returns the empty payload for it.
C5_RemoveBackendPurges ==
    [][(Made("RemoveBackend") /\ last'.err = Nil)
       => \A n \in Names :
            n = last'.name
            => /\ ~HasBackend(n)'
               /\ \A c \in DOMAIN cnames' : cnames'[c] # n
               /\ GetHealthcheck(n)' = NoData]_vars

\* C6: a mutating call other than AddBackend on a name whose resolved backend
\* is not registered returns ErrBackendNotFound and stores nothing, except
\* SetCName and UnsetCName, which return nil and store nothing.
C6_MutationsNeedBackend ==
    [][(last' # last /\ Unregistered(last'.name))
       => /\ last'.op \in {"AddRoute", "AddRoutes", "RemoveRoute", "RemoveRoutes",
                           "RemoveBackend", "SetHealthcheck"}
             => (last'.err = ErrBackendNotFound /\ UNCHANGED registry)
          /\ last'.op \in {"SetCName", "UnsetCName"}
             => (last'.err = Nil /\ UNCHANGED registry)]_vars

\* C7: with no flagged address in the batch, AddRoutes returns nil and leaves
\* each address of the batch exactly once in the route set (so a batch of
\* addresses already there, and a batch repeated, change nothing);
\* RemoveRoutes returns nil, removes the addresses that are there and keeps
\* the rest in place.
C7_BatchIdempotent ==
    [][((Made("AddRoutes") \/ Made("RemoveRoutes"))
        /\ Registered(last'.name)
        /\ \A i \in 1..Len(last'.addrs) : last'.addrs[i] \notin failuresByIp)
       => LET b == records[last'.name]
              batch == Range(last'.addrs)
          IN /\ last'.err = Nil
             /\ DOMAIN backends' = DOMAIN backends
             /\ \A o \in DOMAIN backends \ {b} : backends'[o] = backends[o]
             /\ NoDup(backends'[b])
             /\ Made("AddRoutes")
                => /\ Range(backends'[b]) = Range(backends[b]) \cup batch
                   /\ batch \subseteq Range(backends[b]) => backends' = backends
                   /\ (last.op = "AddRoutes" /\ last.err = Nil
                       /\ last.name = last'.name /\ last.addrs = last'.addrs)
                      => backends' = backends
             /\ Made("RemoveRoutes")
                => /\ Range(backends'[b]) = Range(backends[b]) \ batch
                   /\ batch \cap Range(backends[b]) = {} => backends' = backends]_vars

\* an AddRoutes call with the same address twice in the batch succeeded, and
\* that address is in the route set
C7_Witness ==
    /\ last.op = "AddRoutes"
    /\ last.err = Nil
    /\ Len(last.addrs) = 2
    /\ last.addrs[1] = last.addrs[2]
    /\ Registered(last.name)
    /\ last.addrs[1] \in Range(backends[records[last.name]])

\* C8 as stated: on a registered backend AddRoute returns ErrRouteExists for
\* an address in the route set and otherwise adds exactly it; RemoveRoute
\* returns ErrRouteNotFound for an address not in the route set and otherwise
\* removes exactly it.
C8_SingleRouteAsStated ==
    [][((Made("AddRoute") \/ Made("RemoveRoute")) /\ Registered(last'.name))
       => LET b == records[last'.name]
              a == last'.addrs[1]
              present == a \in Range(backends[b])
          IN /\ (Made("AddRoute") /\ present)
                => (last'.err = ErrRouteExists /\ backends' = backends)
             /\ (Made("AddRoute") /\ ~present)
                => /\ last'.err = Nil
                   /\ Range(backends'[b]) = Range(backends[b]) \cup {a}
                   /\ Len(backends'[b]) = Len(backends[b]) + 1
             /\ (Made("RemoveRoute") /\ ~present)
                => (last'.err = ErrRouteNotFound /\ backends' = backends)
             /\ (Made("RemoveRoute") /\ present)
                => /\ last'.err = Nil
                   /\ Range(backends'[b]) = Range(backends[b]) \ {a}
                   /\ Len(backends'[b]) = Len(backends[b]) - 1]_vars

\* C8 amended: the same for an address that is not flagged; for a flagged
\* address, AddRoute of an address not in the route set and RemoveRoute
\* return the forced failure and leave the route set as it was.
C8_SingleRoute ==
    [][((Made("AddRoute") \/ Made("RemoveRoute")) /\ Registered(last'.name))
       => LET b == records[last'.name]
              a == last'.addrs[1]
              present == a \in Range(backends[b])
              flagged == a \in failuresByIp
          IN /\ DOMAIN backends' = DOMAIN backends
             /\ \A o \in DOMAIN backends \ {b} : backends'[o] = backends[o]
             /\ (Made("AddRoute") /\ present)
                => (last'.err = ErrRouteExists /\ backends' = backends)
             /\ (Made("AddRoute") /\ ~present /\ ~flagged)
                => /\ last'.err = Nil
                   /\ Range(backends'[b]) = Range(backends[b]) \cup {a}
                   /\ Len(backends'[b]) = Len(backends[b]) + 1
             /\ (Made("AddRoute") /\ ~present /\ flagged)
                => (last'.err = ErrForcedFailure /\ backends' = backends)
             /\ (Made("RemoveRoute") /\ ~present /\ ~flagged)
                => (last'.err = ErrRouteNotFound /\ backends' = backends)
             /\ (Made("RemoveRoute") /\ present /\ ~flagged)
                => /\ last'.err = Nil
                   /\ Range(backends'[b]) = Range(backends[b]) \ {a}
                   /\ Len(backends'[b]) = Len(backends[b]) - 1
             /\ (Made("RemoveRoute") /\ flagged)
                => (last'.err = ErrForcedFailure /\ backends' = backends)]_vars

\* RemoveRoute removed an address and another address is still routed
C8_Witness ==
    /\ last.op = "RemoveRoute"
    /\ last.err = Nil
    /\ Registered(last.name)
    /\ backends[records[last.name]] # <<>>
    /\ last.addrs[1] \notin Range(backends[records[last.name]])

\* C9: on a name whose resolved backend is not registered SetCName and
\* UnsetCName return nil and leave the alias table; on a registered one
\* SetCName of an alias in the table returns ErrCNameExists and leaves the
\* table, and UnsetCName of an alias not in the table returns
\* ErrCNameNotFound.
C9_Aliases ==
    [][((Made("SetCName") \/ Made("UnsetCName")) /\ last'.name \in DOMAIN records)
       => IF Unregistered(last'.name)
          THEN last'.err = Nil /\ cnames' = cnames
          ELSE /\ (Made("SetCName") /\ last'.cname \in DOMAIN cnames)
                  => (last'.err = ErrCNameExists /\ cnames' = cnames)
               /\ (Made("UnsetCName") /\ last'.cname \notin DOMAIN cnames)
                  => (last'.err = ErrCNameNotFound /\ cnames' = cnames)]_vars

\* SetCName was refused for an alias that maps to another registered backend
\* than the one the call named
C9_Witness ==
    /\ last.op = "SetCName"
    /\ last.err = ErrCNameExists
    /\ Registered(last.name)
    /\ last.cname \in DOMAIN cnames
    /\ cnames[last.cname] # records[last.name]
    /\ cnames[last.cname] \in DOMAIN backends

\* C10: after a successful SetHealthcheck(name, d), GetHealthcheck(name)
\* returns d.
C10_HealthRoundTrip ==
    (last.op = "SetHealthcheck" /\ last.err = Nil)
        => GetHealthcheck(last.name) = last.data

\* the routes a caller reaches through a name: the resolution record, then the
\* backend map
ResolvedRoutes(name) ==
    IF name \in DOMAIN records THEN RoutesOf(records[name]) ELSE <<"unresolved">>

C18_ConcurrentAddBackend ==
    [][(Made("AddBackend") /\ last'.err = Nil) => last'.name \notin DOMAIN backends]_vars

\* C19: in every reachable state of a concurrent run no backend's route list
\* holds the same address twice.
C19_RouteSetsDuplicateFree ==
    \A name \in DOMAIN backends : NoDup(backends[name])

\* C20: an entry of the backend map is only ever created by an AddBackend that
\* returns, so a name removed by RemoveBackend stays out of the map until a
\* later AddBackend of that name.
C20_RemovedStaysRemoved ==
    [][\A name \in Names :
          (name \notin DOMAIN backends /\ name \in DOMAIN backends') =>
              (Made("AddBackend") /\ last'.name = name)]_vars

\* C12: on a sorted, duplicate-free team list, a Grant of a team that succeeds
\* and is followed by a Revoke of the same team is followed by a Revoke that
\* succeeds and leaves the list as it was before the Grant.
C12_GrantRevokeRoundTrip ==
    [][(/\ last.op = "Grant"
        /\ last.err = Nil
        /\ StrictlyAscending(prevTeams)
        /\ Made("Revoke")
        /\ last'.data = last.data)
       => (last'.err = Nil /\ teams' = prevTeams)]_vars

\* C13: after any sequence of Grant and Revoke calls the team list is strictly
\* ascending and holds exactly the teams of the start, plus those granted,
\* minus those revoked.
C13_TeamListInvariant ==
    /\ StrictlyAscending(teams)
    /\ Range(teams) = members

\* the variable a list of variables ends up giving to a name: its last entry
\* of that name
LastNamed(envs, name) ==
    envs[CHOOSE i \in 1..Len(envs) :
            /\ envs[i].name = name
            /\ \A j \in (i + 1)..Len(envs) : envs[j].name # name]

\* C14: a SetEnvsToApp or UnsetEnvsFromApp call with publicOnly set leaves
\* every variable that is declared and non-public when the call is made as it
\* was; with publicOnly unset, SetEnvsToApp gives every named variable the
\* value and visibility of its last entry in the call and UnsetEnvsFromApp
\* removes every named variable, whatever its visibility.  Variables the call
\* does not name are untouched.
C14_PrivateProtected ==
    [][(Made("SetEnvsToApp") \/ Made("UnsetEnvsFromApp")) =>
        LET publicOnly == last'.data
            named == IF last'.op = "SetEnvsToApp"
                     THEN {last'.addrs[i].name : i \in 1..Len(last'.addrs)}
                     ELSE Range(last'.addrs)
        IN /\ publicOnly =>
                \A name \in DOMAIN env : ~env[name].public =>
                    (name \in DOMAIN env' /\ env'[name] = env[name])
           /\ (~publicOnly /\ last'.op = "SetEnvsToApp") =>
                \A name \in named :
                    (name \in DOMAIN env' /\ env'[name] = LastNamed(last'.addrs, name))
           /\ (~publicOnly /\ last'.op = "UnsetEnvsFromApp") =>
                \A name \in named : name \notin DOMAIN env'
           /\ \A name \in VarNames \ named :
                /\ (name \in DOMAIN env) = (name \in DOMAIN env')
                /\ name \in DOMAIN env => env'[name] = env[name]]_vars

\* a public-only call named a private variable with another value, and the
\* variable is still private
C14_Witness ==
    /\ last.op = "SetEnvsToApp"
    /\ last.data = TRUE
    /\ \E i \in 1..Len(last.addrs) :
          LET var == last.addrs[i]
          IN /\ var.name \in DOMAIN env
             /\ ~env[var.name].public
             /\ env[var.name].value # var.value

\* the naming pattern: lower-case letters and digits only, the first character
\* a letter, at most 63 characters
MatchesPattern(name) ==
    /\ NameLen(name) >= 1
    /\ NameLen(name) <= MaxRest + 1
    /\ name[1][1] = "lower"
    /\ \A i \in 1..Len(name) : name[i][1] # "upper" /\ name[i][1] # "other"

\* C15: CreateApp with a name that does not match the naming pattern returns
\* the validation error with no step run forward or backward and with the
\* record, credentials, repository and provisioned service as they were; with
\* a name that matches it never returns the validation error.
C15_ValidationFailsFast ==
    [][Made("CreateApp") =>
        IF MatchesPattern(last'.addrs)
        THEN last'.err # ErrValidation
        ELSE /\ last'.err = ErrValidation
             /\ events' = <<>>
             /\ app' = app]_vars

\* a name of 64 lower-case letters was rejected
C15_Witness ==
    /\ last.op = "CreateApp"
    /\ last.err = ErrValidation
    /\ NameLen(last.addrs) = MaxRest + 2
    /\ \A i \in 1..Len(last.addrs) : last.addrs[i][1] = "lower"

Forwards == SelectSeq(events, LAMBDA e : e[1] = "forward")
Backwards == SelectSeq(events, LAMBDA e : e[1] = "backward")

Happened(e) == e \in Range(events)

\* C17: a Destroy removes the record only by its last step, after the bucket
\* was destroyed and, for an application with units, the unit was destroyed
\* and every bound instance unbound with no failure; a Destroy that fails in
\* an earlier stage returns that stage's error, runs no later stage and leaves
\* the record.
C17_DestroyOrdering ==
    [][Made("Destroy") =>
        /\ \A i \in 1..Len(events') :
              events'[i] = <<"remove", "record">> => i = Len(events')
        /\ ~app'.insertApp =>
              /\ last'.err = Nil
              /\ events'[Len(events')] = <<"remove", "record">>
              /\ events'[1] = <<"destroy", "bucket">>
              /\ app.units # {} =>
                    /\ events'[2] = <<"destroy", "unit">>
                    /\ \A inst \in app.instances :
                          /\ Happened(<<"unbind", inst>>)'
                          /\ ~Happened(<<"unbind failed", inst>>)'
        /\ last'.err # Nil => app'.insertApp
        /\ last'.err = ErrBucket => events' = <<<<"destroy", "bucket">>>>
        /\ last'.err = ErrUnit =>
              events' = <<<<"destroy", "bucket">>, <<"destroy", "unit">>>>
        /\ last'.err \in {ErrFind, ErrUnbind} => ~Happened(<<"remove", "record">>)'
        /\ (\E inst \in Instances : Happened(<<"unbind failed", inst>>)') =>
              last'.err = ErrUnbind]_vars

\* an application with a unit and two bound instances was destroyed
C17_Witness ==
    /\ last.op = "Destroy"
    /\ last.err = Nil
    /\ ~app.insertApp
    /\ app.units # {}
    /\ app.instances = Instances
    /\ events[Len(events)] = <<"remove", "record">>

\* the instances on which the last call did what: tried Unbind, saw Unbind
\* fail, named in the message of the composite error
Tried == {inst \in Instances : Happened(<<"unbind", inst>>)}
Failed == {inst \in Instances : Happened(<<"unbind failed", inst>>)}
Named == {inst \in Instances : Happened(<<"addMsg", inst>>)}

\* the number of calls of Unbind in the last call
Attempts == Len(SelectSeq(events, LAMBDA e : e[1] = "unbind"))

\* C21 as stated: whenever unbind runs, Unbind is tried on every bound
\* instance, unbind returns nil exactly when no Unbind failed, and otherwise
\* it returns the composite error naming exactly the failed instances.
C21_BestEffortUnbindAsStated ==
    [][(Made("Destroy") /\ Happened(<<"find", "instances">>)') =>
        /\ Tried' = app.instances
        /\ Happened(<<"remove", "record">>)' <=> (Failed' = {})
        /\ Failed' # {} => (last'.err = ErrUnbind /\ Named' = Failed')]_vars

\* C21: when the query for the bound instances fails, unbind returns the
\* error of the query and tries no Unbind; otherwise Unbind is tried once on
\* every bound instance, also after one has failed, unbind returns nil exactly
\* when no Unbind failed, and otherwise the composite error, which names
\* exactly the failed instances.
C21_BestEffortUnbind ==
    [][(Made("Destroy") /\ Happened(<<"find", "instances">>)') =>
        IF last'.err = ErrFind
        THEN Tried' = {} /\ Named' = {} /\ ~Happened(<<"remove", "record">>)'
        ELSE /\ Tried' = app.instances
             /\ Attempts' = Cardinality(app.instances)
             /\ Happened(<<"remove", "record">>)' <=> (Failed' = {})
             /\ (last'.err = ErrUnbind) <=> (Failed' # {})
             /\ Named' = Failed']_vars

\* the first Unbind failed, the second was still tried and succeeded, and the
\* composite error names the first instance only
C21_Witness ==
    /\ last.op = "Destroy"
    /\ last.err = ErrUnbind
    /\ Tried = Instances
    /\ Cardinality(Failed) = 1
    /\ Named = Failed
    /\ \E k \in 1..Len(events) :
          /\ events[k][1] = "unbind failed"
          /\ \E j \in (k + 1)..Len(events) : events[j][1] = "unbind"

\* the writes, commands and restart hook of the last call, a command run
\* with its absolute path counted as that command
Performed ==
    LET done == SelectSeq(events, LAMBDA e : e[1] # "fetch")
    IN [i \in 1..Len(done) |->
          IF \E c \in Cmds : done[i] = <<"run", AbsPath[c]>>
          THEN <<"run", CHOOSE c \in Cmds : done[i] = <<"run", AbsPath[c]>>>>
          ELSE done[i]]

\* one hook stage in full: nothing for an empty list, else the header and
\* the commands in the configured order
Stage(cmds, kind) ==
    IF cmds = <<>> THEN <<>>
    ELSE <<<<"write", kind>>>> \o [i \in 1..Len(cmds) |-> <<"run", cmds[i]>>]

\* a restart in full
AllStages ==
    Stage(hooks.pre, "pre-restart") \o <<<<"write", "restart marker">>>>
    \o Stage(hooks.pos, "pos-restart") \o <<<<"hook", "restart">>>>

IsPrefix(s, t) == Len(s) <= Len(t) /\ SubSeq(t, 1, Len(s)) = s

\* what a Restart step did is a restart in full, cut after the stage that
\* failed, and the error returned is that stage's
StagesInOrder ==
    /\ IsPrefix(Performed, AllStages)'
    /\ last'.err \in {Nil, ErrHook} <=> (Performed = AllStages)'
    /\ last'.err \in {ErrPath, ErrParse} => Performed' = <<>>
    /\ last'.err = ErrWrite => (Performed[Len(Performed)][1] = "write")'
    /\ last'.err = ErrRun => (Performed[Len(Performed)][1] = "run")'

\* C22: a Restart performs, in this order, the pre-restart commands in their
\* configured order, the restart marker, the pos-restart commands in their
\* configured order and the unit's restart hook, up to the first stage that
\* fails, whose error it returns; a stage with no command performs nothing.
C22_RestartStageOrder ==
    [][Made("Restart") => StagesInOrder]_vars

\* the same for the restarts in which no empty command was run, that is for
\* which git:unit-repo is configured
C22_OrderWhenConfigured ==
    [][(Made("Restart") /\ ~Happened(<<"run", "">>)') => StagesInOrder]_vars

\* C23: app.conf is read from the unit at most once; a call made when the
\* hooks are loaded, whatever the end of the load that set them, reads
\* nothing, leaves the hooks as they are and returns no error of loading.
C23_HooksLoadedOnce ==
    [][(Made("preRestart") \/ Made("posRestart") \/ Made("Restart")) =>
        /\ fetches' <= 1
        /\ Fetched(events') <= 1
        /\ hooks'.loaded
        /\ hooks.loaded =>
              /\ fetches' = fetches
              /\ hooks' = hooks
              /\ last'.err \notin {ErrPath, ErrFetch, ErrParse}]_vars

\* a call that returned no error after the one load ended in a parse error
C23_Witness ==
    /\ hooks.loaded
    /\ hooks.first = ErrParse
    /\ hooks.pre # <<>>
    /\ fetches = 1
    /\ last.op = "posRestart"
    /\ last.err = Nil
    /\ Fetched(events) = 0

=============================================================================
